---- MODULE Spec2Model ----
(***************************************************************************)
(* Raven: the verification - consensus - monetization pipeline.            *)
(*   agent/x402.py         X402Merchant        (payment lock gate)          *)
(*   agent/validation.py   validate_patch_code (static validation gate)     *)
(*   agent/sandbox.py      DockerSandbox       (isolated verification)      *)
(*   agent/coordinator.py  AgentCoordinator    (orchestrator, consensus)    *)
(* Each component has a specification of its own (SpecMerchant, SpecGate,  *)
(* SpecSandbox, SpecRun); a specification leaves the variables of the      *)
(* other components at their initial values.  SpecSelect and SpecNormalize *)
(* apply the consensus functions to bounded inputs, SpecConcurrent         *)
(* interleaves verify_payment calls, SpecRunFair is SpecRun consumed to    *)
(* its end.                                                                *)
(***************************************************************************)
EXTENDS Integers, Sequences, FiniteSets, TLC

VARIABLES
    \* X402Merchant (agent/x402.py)
    mode,             \* self.mode
    active_invoices,  \* self.active_invoices: invoice id -> invoice record
    issued,           \* the values uuid.uuid4() has returned so far
    clock,            \* time.time(), as a logical clock
    lastOp,           \* the last merchant call: its arguments, result, and the state before it
    threads,          \* concurrent verify_payment calls: position, gateway answer, result of each
    \* validate_patch_code (agent/validation.py)
    gate_in,          \* the arguments of the call
    gate_out,         \* its result, or the exception it raised
    \* DockerSandbox (agent/sandbox.py)
    instances,        \* the containers that exist in the runtime backend
    created,          \* number of containers the backend has created
    removed,          \* number of containers the backend has removed
    remove_calls,     \* number of container.remove(force=True) calls issued
    sb_last,          \* run_verification calls made so far (n); result and backend calls of the last
    \* AgentCoordinator.solve_issue (agent/coordinator.py)
    pc,               \* position of the generator
    issue_url,        \* the argument of solve_issue
    source,           \* state of the patch source's stream
    candidates,       \* candidates
    idx,              \* index of the candidate the for loop is at
    logs,             \* logs
    passing,          \* passing, as positions in candidates
    validation_blocked,
    winner,           \* winner, as a position in candidates (0: none yet)
    events,           \* everything yielded to the consumer, in order
    history,          \* per candidate: what the run did with it
    \* the consensus functions (agent/coordinator.py), called on their own
    sel_in,           \* passing_candidates handed to _select_consensus_winner
    sel_out,          \* the winning miner id of each call made on sel_in
    sel_report,       \* the reports _consensus_report made of sel_in and its winner
    norm_in,          \* the argument of _normalize_code
    norm_out          \* its result, and the result of normalizing that again

merchantVars == <<mode, active_invoices, issued, clock, lastOp, threads>>
gateVars     == <<gate_in, gate_out>>
sandboxVars  == <<instances, created, removed, remove_calls, sb_last>>
runVars      == <<pc, issue_url, source, candidates, idx, logs, passing, validation_blocked,
                  winner, events, history>>
consensusVars == <<sel_in, sel_out, sel_report, norm_in, norm_out>>
vars         == <<merchantVars, gateVars, sandboxVars, runVars, consensusVars>>

(***************************************************************************)
(* Bounds of the model.                                                    *)
(***************************************************************************)
MaxLocks  == 2    \* create_locked_content calls on one merchant
MaxCalls  == 3    \* run_verification calls on one sandbox
MaxNodes  == 2    \* nodes of a parsed tree handed to the gate
MaxLen    == 3    \* characters of a text handed to the gate
SmallCeiling == 2 \* a max_chars argument small enough for such a text to exceed
MaxCands  == 2    \* candidates the patch source yields in one run
MaxNotes  == 1    \* progress notifications the patch source yields in one run
MaxPassing == 3   \* candidates of a passing list handed to the selector
MaxSelects == 2   \* calls of the selector on one passing list
MaxThreads == 2   \* concurrent verify_payment calls for one invoice

(***************************************************************************)
(* Text.  A Python str is a sequence of one-character strings.             *)
(***************************************************************************)
Min(a, b) == IF a < b THEN a ELSE b

\* str.isspace() of one character
IsSpace(c) == c \in {" ", "\t", "\n", "\r", "\f"}

\* the characters str.splitlines() breaks a line at
IsLineBreak(c) == c \in {"\n", "\r", "\f"}

RECURSIVE lstrip(_)
lstrip(s) == IF s # <<>> /\ IsSpace(Head(s)) THEN lstrip(Tail(s)) ELSE s

RECURSIVE rstrip(_)
rstrip(s) ==
    IF s # <<>> /\ IsSpace(s[Len(s)]) THEN rstrip(SubSeq(s, 1, Len(s) - 1)) ELSE s

strip(s) == rstrip(lstrip(s))

\* str.splitlines(): "\r\n" is one break; no empty last line after a final break
RECURSIVE SplitFrom(_, _)
SplitFrom(s, cur) ==
    IF s = <<>> THEN (IF cur = <<>> THEN <<>> ELSE <<cur>>)
    ELSE IF IsLineBreak(Head(s))
         THEN LET rest == IF Head(s) = "\r" /\ Len(s) >= 2 /\ s[2] = "\n"
                          THEN Tail(Tail(s)) ELSE Tail(s)
              IN  <<cur>> \o SplitFrom(rest, <<>>)
         ELSE SplitFrom(Tail(s), Append(cur, Head(s)))

splitlines(s) == SplitFrom(s, <<>>)

\* sep.join(parts)
RECURSIVE join(_, _)
join(sep, parts) ==
    IF parts = <<>> THEN <<>>
    ELSE IF Len(parts) = 1 THEN parts[1]
    ELSE parts[1] \o sep \o join(sep, Tail(parts))

\* s[:n]
Prefix(s, n) == SubSeq(s, 1, Min(n, Len(s)))

\* t occurs in s as a contiguous run of characters
Occurs(t, s) ==
    \E i \in 1..(Len(s) - Len(t) + 1) : SubSeq(s, i, i + Len(t) - 1) = t

(***************************************************************************)
(* Code texts.  A candidate's code is a text together with what            *)
(* ast.parse makes of it (the parser is Python's, not this repository's):  *)
(* "tree" with the nodes in ast.walk order, "SyntaxError", or another      *)
(* exception (RecursionError, MemoryError on deeply nested source).        *)
(***************************************************************************)
T_fix     == <<"d", "e", "f", "\n", " ", "r">>            \* a function body
T_fix_ws  == <<"\n", "d", "e", "f", " ", "\n", " ", "r", " ", "\n">>  \* same, other blank space
T_alt     == <<"d", "e", "f", "\n", " ", "q">>            \* another solution
T_imp     == <<"i", "\n", "d", "e", "f">>                \* one with an import
T_deep    == <<"a", "+", "a", "+", "a">>                  \* stands for a+a+...+a, too deep to parse
T_empty   == <<>>

ModOs      == <<"os", "path">>      \* "os.path"
ModJson    == <<"json">>
ModSubproc == <<"subprocess">>

N_fix      == [kind |-> "FunctionDef", name |-> "fix_issue", names |-> <<>>, module |-> <<>>, func |-> "none", id |-> ""]
N_helper   == [kind |-> "FunctionDef", name |-> "helper", names |-> <<>>, module |-> <<>>, func |-> "none", id |-> ""]
N_async    == [kind |-> "AsyncFunctionDef", name |-> "fix_issue", names |-> <<>>, module |-> <<>>, func |-> "none", id |-> ""]
N_imp_os   == [kind |-> "Import", name |-> "", names |-> <<ModJson, ModOs>>, module |-> <<>>, func |-> "none", id |-> ""]
N_imp_json == [kind |-> "Import", name |-> "", names |-> <<ModJson>>, module |-> <<>>, func |-> "none", id |-> ""]
N_from_sub == [kind |-> "ImportFrom", name |-> "", names |-> <<>>, module |-> ModSubproc, func |-> "none", id |-> ""]
N_from_rel == [kind |-> "ImportFrom", name |-> "", names |-> <<>>, module |-> <<>>, func |-> "none", id |-> ""]
N_eval     == [kind |-> "Call", name |-> "", names |-> <<>>, module |-> <<>>, func |-> "Name", id |-> "eval"]
N_print    == [kind |-> "Call", name |-> "", names |-> <<>>, module |-> <<>>, func |-> "Name", id |-> "print"]
N_attr_ev  == [kind |-> "Call", name |-> "", names |-> <<>>, module |-> <<>>, func |-> "Attribute", id |-> "eval"]

Code(text, parse, nodes) == [text |-> text, parse |-> parse, nodes |-> nodes]

C_fix     == Code(T_fix,    "tree", <<N_fix>>)
C_fix_ws  == Code(T_fix_ws, "tree", <<N_fix>>)
C_alt     == Code(T_alt,    "tree", <<N_fix>>)
C_import  == Code(T_imp,    "tree", <<N_imp_os, N_fix>>)
C_empty   == Code(T_empty,  "tree", <<>>)
C_deep    == Code(T_deep,   "OtherError", <<>>)

(***************************************************************************)
(* X402Merchant (agent/x402.py).                                           *)
(***************************************************************************)
GatewayUrl   == "https://x402.pay/invoice"
DefaultPrice == "5.0"

\* X402_MODE, lower-cased: "demo" (the default), "production", or anything else
Modes == {"demo", "production", "staging"}

\* str(uuid.uuid4()) as <<first 8 characters, the rest>>; uuid4 never
\* returns the same value twice, but two values can share their first 8
\* characters.
UUIDs == {<<"1a2b3c4d", "-0000">>, <<"1a2b3c4d", "-ffff">>, <<"9f8e7d6c", "-0000">>}

First8(u) == <<u[1]>>

Contents == {C_fix, C_alt}

\* every key a caller can pass as invoice_id
InvoiceIds == UUIDs \cup {First8(u) : u \in UUIDs}

Put(f, k, v) == [x \in DOMAIN f \cup {k} |-> IF x = k THEN v ELSE f[x]]

\* create_locked_content(content, price_usdc): u is what uuid4 returns, t is time.time()
create_locked_content(invoices, m, u, content, price_usdc, t) ==
    LET invoice_id   == IF m = "production" THEN u ELSE First8(u)
        payment_link == [url |-> GatewayUrl, invoice_id |-> invoice_id, amount |-> price_usdc]
    IN  [invoices |-> Put(invoices, invoice_id,
                          [content |-> content, status |-> "unpaid",
                           price |-> price_usdc, created_at |-> t]),
         ret |-> [invoice_id |-> invoice_id, payment_link |-> payment_link,
                  status |-> "402 Payment Required"]]

\* What requests.get(...), raise_for_status() and resp.json() can do.
PaidValues   == {"absent", "True", "False", "'no'"}
StatusValues == {"absent", "paid", "PAID", "pending"}
GatewayFailures ==
    {[kind |-> k, paid |-> "absent", status |-> "absent"] :
        k \in {"RequestException", "HTTPError", "JSONDecodeError", "NotADict"}}
GatewayAnswers ==
    {[kind |-> "json", paid |-> p, status |-> s] : p \in PaidValues, s \in StatusValues}
GatewayOutcomes == GatewayFailures \cup GatewayAnswers
NoGateway == [kind |-> "not queried", paid |-> "absent", status |-> "absent"]

\* Python truth value of data.get("paid")
Truthy(v) == v \in {"True", "'no'"}
\* str(data.get("status", "")).lower()
LowerStatus(v) == IF v = "absent" THEN "" ELSE IF v = "PAID" THEN "paid" ELSE v

\* bool(data.get("paid") or str(data.get("status", "")).lower() == "paid")
AnswerPaid(gw) == Truthy(gw.paid) \/ LowerStatus(gw.status) = "paid"

SetStatus(invoices, id, st) == [invoices EXCEPT ![id].status = st]

\* verify_payment with the settlement query outside any try: a failure propagates
verify_payment_uncaught(invoices, m, invoice_id, gw) ==
    IF invoice_id \notin DOMAIN invoices
    THEN [invoices |-> invoices, ret |-> "None", raised |-> FALSE, queried |-> FALSE]
    ELSE IF m = "demo"
    THEN [invoices |-> SetStatus(invoices, invoice_id, "paid"), ret |-> "True",
          raised |-> FALSE, queried |-> FALSE]
    ELSE IF gw.kind # "json"
    THEN [invoices |-> invoices, ret |-> "none", raised |-> TRUE, queried |-> TRUE]
    ELSE [invoices |-> IF AnswerPaid(gw) THEN SetStatus(invoices, invoice_id, "paid")
                       ELSE invoices,
          ret |-> IF AnswerPaid(gw) THEN "True" ELSE "False",
          raised |-> FALSE, queried |-> TRUE]

\* verify_payment that marks the invoice paid before it looks at the answer
verify_payment_eager(invoices, m, invoice_id, gw) ==
    IF invoice_id \notin DOMAIN invoices
    THEN [invoices |-> invoices, ret |-> "None", raised |-> FALSE, queried |-> FALSE]
    ELSE [invoices |-> SetStatus(invoices, invoice_id, "paid"),
          ret |-> IF m = "demo" \/ (gw.kind = "json" /\ AnswerPaid(gw)) THEN "True" ELSE "False",
          raised |-> FALSE, queried |-> m # "demo"]

\* verify_payment(invoice_id): gw is what the gateway query does, if it is made
verify_payment(invoices, m, invoice_id, gw) ==
    IF invoice_id \notin DOMAIN invoices
    THEN [invoices |-> invoices, ret |-> "None", raised |-> FALSE, queried |-> FALSE]
    ELSE IF m = "demo"
    THEN [invoices |-> SetStatus(invoices, invoice_id, "paid"), ret |-> "True",
          raised |-> FALSE, queried |-> FALSE]
    ELSE IF gw.kind # "json"
    THEN [invoices |-> invoices, ret |-> "False", raised |-> FALSE, queried |-> TRUE]
    ELSE IF AnswerPaid(gw)
    THEN [invoices |-> SetStatus(invoices, invoice_id, "paid"), ret |-> "True",
          raised |-> FALSE, queried |-> TRUE]
    ELSE [invoices |-> invoices, ret |-> "False", raised |-> FALSE, queried |-> TRUE]

\* what a call that returns no content leaves in lastOp.content
NoContent == Code(<<>>, "none", <<>>)

\* retrieve_content without the status test
retrieve_content_unlocked(invoices, invoice_id) ==
    IF invoice_id \in DOMAIN invoices
    THEN [raised |-> "none", content |-> invoices[invoice_id].content]
    ELSE [raised |-> "PermissionError", content |-> NoContent]

\* retrieve_content(invoice_id)
retrieve_content(invoices, invoice_id) ==
    IF invoice_id \in DOMAIN invoices /\ invoices[invoice_id].status = "paid"
    THEN [raised |-> "none", content |-> invoices[invoice_id].content]
    ELSE [raised |-> "PermissionError", content |-> NoContent]

NoInvoice == [content |-> NoContent, status |-> "absent", price |-> "", created_at |-> 0]
Stored(invoices, id) == IF id \in DOMAIN invoices THEN invoices[id] ELSE NoInvoice

\* lastOp.was is the invoice stored under lastOp.id before the call
NoOp == [op |-> "none", id |-> <<>>, gw |-> NoGateway, ret |-> "none",
         raised |-> "none", content |-> NoContent, was |-> NoInvoice]

MerchantInit ==
    /\ active_invoices = <<>>
    /\ issued = {}
    /\ clock = 0
    /\ lastOp = NoOp
    /\ threads = <<>>

Lock ==
    /\ clock < MaxLocks
    /\ \E u \in UUIDs \ issued, content \in Contents :
         LET r == create_locked_content(active_invoices, mode, u, content, DefaultPrice, clock)
         IN  /\ active_invoices' = r.invoices
             /\ issued' = issued \cup {u}
             /\ lastOp' = [NoOp EXCEPT !.op = "create_locked_content",
                                       !.id = r.ret.invoice_id,
                                       !.was = Stored(active_invoices, r.ret.invoice_id)]
    /\ clock' = clock + 1
    /\ UNCHANGED <<mode, threads>>

Check ==
    /\ \E id \in InvoiceIds, gw \in GatewayOutcomes :
         LET r == verify_payment(active_invoices, mode, id, gw)
         IN  /\ active_invoices' = r.invoices
             /\ lastOp' = [NoOp EXCEPT !.op = "verify_payment", !.id = id,
                                       !.gw = IF r.queried THEN gw ELSE NoGateway,
                                       !.ret = r.ret,
                                       !.raised = IF r.raised THEN "Exception" ELSE "none",
                                       !.was = Stored(active_invoices, id)]
    /\ UNCHANGED <<mode, issued, clock, threads>>

Release ==
    /\ \E id \in InvoiceIds :
         LET r == retrieve_content(active_invoices, id)
         IN  lastOp' = [NoOp EXCEPT !.op = "retrieve_content", !.id = id,
                                    !.raised = r.raised, !.content = r.content,
                                    !.was = Stored(active_invoices, id)]
    /\ UNCHANGED <<mode, active_invoices, issued, clock, threads>>


\* Concurrent verify_payment calls.  Threads of one interpreter interleave
\* between the statements of verify_payment; a thread is at "called" (before
\* line 51), "found" (after the lookup of lines 51-53), "answered" (paid
\* computed at lines 66-69, before the test of line 70) or "returned".
NotCalled == [pc |-> "called", gw |-> NoGateway, paid |-> FALSE, ret |-> "none"]

\* lines 70-71 writing the answer, whatever it is, to the invoice
verify_payment_write_stores_answer(invoices, invoice_id, paid) ==
    IF invoice_id \in DOMAIN invoices
    THEN SetStatus(invoices, invoice_id, IF paid THEN "paid" ELSE "unpaid")
    ELSE invoices

\* lines 70-71: if paid: self.active_invoices[invoice_id]["status"] = "paid"
verify_payment_write(invoices, invoice_id, paid) ==
    IF paid /\ invoice_id \in DOMAIN invoices
    THEN SetStatus(invoices, invoice_id, "paid")
    ELSE invoices

\* lines 51-53
ThreadLookup(t) ==
    /\ threads[t].pc = "called"
    /\ threads' = [threads EXCEPT ![t] =
                      IF lastOp.id \in DOMAIN active_invoices
                      THEN [@ EXCEPT !.pc = "found"]
                      ELSE [@ EXCEPT !.pc = "returned", !.ret = "None"]]
    /\ UNCHANGED <<mode, active_invoices, issued, clock, lastOp>>

\* lines 55-57
ThreadDemo(t) ==
    /\ threads[t].pc = "found"
    /\ mode = "demo"
    /\ active_invoices' = SetStatus(active_invoices, lastOp.id, "paid")
    /\ threads' = [threads EXCEPT ![t] = [@ EXCEPT !.pc = "returned", !.ret = "True"]]
    /\ UNCHANGED <<mode, issued, clock, lastOp>>

\* lines 62-69 and 73-74: the settlement query and what is made of its answer
ThreadQuery(t) ==
    /\ threads[t].pc = "found"
    /\ mode # "demo"
    /\ \E gw \in GatewayOutcomes :
         threads' = [threads EXCEPT ![t] =
                        IF gw.kind # "json"
                        THEN [@ EXCEPT !.pc = "returned", !.gw = gw, !.ret = "False"]
                        ELSE [@ EXCEPT !.pc = "answered", !.gw = gw, !.paid = AnswerPaid(gw)]]
    /\ UNCHANGED <<mode, active_invoices, issued, clock, lastOp>>

\* lines 70-72
ThreadWrite(t) ==
    /\ threads[t].pc = "answered"
    /\ active_invoices' = verify_payment_write(active_invoices, lastOp.id, threads[t].paid)
    /\ threads' = [threads EXCEPT ![t] =
                      [@ EXCEPT !.pc = "returned",
                                !.ret = IF threads[t].paid THEN "True" ELSE "False"]]
    /\ UNCHANGED <<mode, issued, clock, lastOp>>

(***************************************************************************)
(* validate_patch_code (agent/validation.py).                              *)
(***************************************************************************)
DefaultMaxChars == 20000
RequireFunction == "fix_issue"

_DEFAULT_FORBIDDEN_MODULES ==
    {"os", "subprocess", "socket", "ssl", "asyncio", "multiprocessing", "threading",
     "signal", "pathlib", "shutil", "glob", "tempfile", "importlib", "pickle",
     "marshal", "requests", "urllib", "http", "ftplib", "docker"}

_DEFAULT_FORBIDDEN_CALLS == {"eval", "exec", "compile", "__import__", "open"}

\* ValidationResult(ok, reason); raised names the exception when the call raises instead
ValidationResult(ok, rule, name) ==
    [raised |-> "none", ok |-> ok, reason |-> [rule |-> rule, name |-> name]]
GateRaised(exc) ==
    [raised |-> exc, ok |-> FALSE, reason |-> [rule |-> "none", name |-> ""]]

\* (dotted or "").split(".")[0]
FirstPart(dotted) == IF dotted = <<>> THEN "" ELSE dotted[1]

\* for alias in node.names: the first alias whose module is forbidden, or 0
FirstForbiddenAlias(names) ==
    IF \E i \in 1..Len(names) : FirstPart(names[i]) \in _DEFAULT_FORBIDDEN_MODULES
    THEN CHOOSE i \in 1..Len(names) :
            /\ FirstPart(names[i]) \in _DEFAULT_FORBIDDEN_MODULES
            /\ \A j \in 1..(i - 1) : FirstPart(names[j]) \notin _DEFAULT_FORBIDDEN_MODULES
    ELSE 0

\* for node in ast.walk(tree): ...; then the has_required test
RECURSIVE WalkNodes(_, _, _)
WalkNodes(nodes, has_required, require_function) ==
    IF nodes = <<>>
    THEN IF ~has_required
         THEN ValidationResult(FALSE, "Missing required function", require_function)
         ELSE ValidationResult(TRUE, "OK", "")
    ELSE LET node == Head(nodes)
             has  == has_required
                     \/ (node.kind = "FunctionDef" /\ node.name = require_function)
         IN  IF node.kind = "Import" /\ FirstForbiddenAlias(node.names) # 0
             THEN ValidationResult(FALSE, "Forbidden import",
                                   FirstPart(node.names[FirstForbiddenAlias(node.names)]))
             ELSE IF node.kind = "ImportFrom"
                     /\ FirstPart(node.module) \in _DEFAULT_FORBIDDEN_MODULES
             THEN ValidationResult(FALSE, "Forbidden import", FirstPart(node.module))
             ELSE IF node.kind = "Call" /\ node.func = "Name"
                     /\ node.id \in _DEFAULT_FORBIDDEN_CALLS
             THEN ValidationResult(FALSE, "Forbidden call", node.id)
             ELSE WalkNodes(Tail(nodes), has, require_function)

\* validate_patch_code(code, require_function=..., max_chars=...)
validate_patch_code(code, require_function, max_chars) ==
    IF code.text = <<>> \/ strip(code.text) = <<>>
    THEN ValidationResult(FALSE, "Empty patch", "")
    ELSE IF Len(code.text) > max_chars
    THEN ValidationResult(FALSE, "Patch too large", "")
    ELSE IF code.parse = "SyntaxError"
    THEN ValidationResult(FALSE, "Syntax error", "")
    ELSE IF code.parse # "tree"
    THEN GateRaised(code.parse)
    ELSE WalkNodes(code.nodes, FALSE, require_function)


(***************************************************************************)
(* DockerSandbox.run_verification (agent/sandbox.py).                      *)
(* The runtime backend is Docker: each call on it either returns or        *)
(* raises.  A behaviour b fixes what each backend call of one              *)
(* run_verification does.                                                  *)
(***************************************************************************)
DefaultTimeout == 30

IssueUrls ==
    {[netloc |-> "github.com", path |-> <<"acme", "widgets", "issues", "7">>],
     [netloc |-> "example.org", path |-> <<"bug">>]}

\* coordinator.py lines 59-80: the script handed to the sandbox as test procedure
run_tests_sh(url) ==
    [script |-> "clone, cp solution.py, pip install, pytest",
     target_repo_url |->
        IF Len(url.path) >= 2 /\ url.netloc = "github.com"
        THEN <<"https://github.com", url.path[1], url.path[2]>>
        ELSE <<"https://github.com", "demo-organization", "demo-repo">>]

BackendBehaviours ==
    [run    : {"ok", "raises"},
     put1   : {"ok", "raises"},
     put2   : {"ok", "raises"},
     wait   : {"exit 0", "exit 1", "no StatusCode", "timeout", "raises"},
     kill   : {"ok", "raises"},
     logs   : {"ok", "raises"},
     remove : {"ok", "raises"}]

\* {"success": ..., "logs": ...}; seconds is the N of "Sandbox timeout after Ns"
Outcome(success, text) == [success |-> success, logs |-> [text |-> text, seconds |-> 0]]
TimedOut(seconds) ==
    [success |-> FALSE, logs |-> [text |-> "Sandbox timeout after", seconds |-> seconds]]
NoOutcome == Outcome(FALSE, "nothing returned")
Called(name, payload, out) == [call |-> name, payload |-> payload, out |-> out]

Command == "python -m pytest -q test_suite.py"

\* lines 33-46: containers.run(..., detach=True), then the two _copy_to_container
\* calls, as far as they get
Injection(code_patch, test_code, b) ==
    IF b.run = "raises"
    THEN <<Called("containers.run", Command, "raises")>>
    ELSE IF b.put1 = "raises"
    THEN <<Called("containers.run", Command, "ok"),
           Called("put_archive solution.py", code_patch, "raises")>>
    ELSE <<Called("containers.run", Command, "ok"),
           Called("put_archive solution.py", code_patch, "ok"),
           Called("put_archive test_suite.py", test_code, b.put2)>>

\* the try block taking a missing StatusCode for 0
TryBlock_status_defaults_to_zero(code_patch, test_code, b, timeout_seconds) ==
    LET inj == Injection(code_patch, test_code, b)
    IN  IF b.run = "raises"
        THEN [error |-> "str(e): containers.run", ret |-> NoOutcome, container |-> FALSE,
              calls |-> inj]
        ELSE IF b.put1 = "raises" \/ b.put2 = "raises"
        THEN [error |-> "str(e): put_archive", ret |-> NoOutcome, container |-> TRUE,
              calls |-> inj]
        ELSE IF b.wait \in {"timeout", "raises"}
        THEN [error |-> "none", ret |-> TimedOut(timeout_seconds), container |-> TRUE,
              calls |-> inj \o <<Called("wait", timeout_seconds, b.wait),
                                 Called("kill", "", b.kill)>>]
        ELSE IF b.logs = "raises"
        THEN [error |-> "str(e): logs", ret |-> NoOutcome, container |-> TRUE,
              calls |-> inj \o <<Called("wait", timeout_seconds, b.wait),
                                 Called("logs", "", "raises")>>]
        ELSE [error |-> "none",
              ret |-> Outcome(b.wait \in {"exit 0", "no StatusCode"}, "container output"),
              container |-> TRUE,
              calls |-> inj \o <<Called("wait", timeout_seconds, b.wait),
                                 Called("logs", "", "ok")>>]

\* The try block of run_verification: the exception raised in it ("none" if
\* it reached a return), the value returned, whether container was assigned,
\* and the backend calls made, in order
TryBlock(code_patch, test_code, b, timeout_seconds) ==
    LET inj == Injection(code_patch, test_code, b)
    IN  IF b.run = "raises"
        THEN [error |-> "str(e): containers.run", ret |-> NoOutcome, container |-> FALSE,
              calls |-> inj]
        ELSE IF b.put1 = "raises" \/ b.put2 = "raises"
        THEN [error |-> "str(e): put_archive", ret |-> NoOutcome, container |-> TRUE,
              calls |-> inj]
        ELSE IF b.wait \in {"timeout", "raises"}
        THEN [error |-> "none", ret |-> TimedOut(timeout_seconds), container |-> TRUE,
              calls |-> inj \o <<Called("wait", timeout_seconds, b.wait),
                                 Called("kill", "", b.kill)>>]
        ELSE IF b.logs = "raises"
        THEN [error |-> "str(e): logs", ret |-> NoOutcome, container |-> TRUE,
              calls |-> inj \o <<Called("wait", timeout_seconds, b.wait),
                                 Called("logs", "", "raises")>>]
        ELSE [error |-> "none", ret |-> Outcome(b.wait = "exit 0", "container output"),
              container |-> TRUE,
              calls |-> inj \o <<Called("wait", timeout_seconds, b.wait),
                                 Called("logs", "", "ok")>>]

\* lines 61-62: except Exception as e: return {"success": False, "logs": str(e)}
Caught(t) ==
    [raised |-> "none",
     ret |-> IF t.error = "none" THEN t.ret ELSE Outcome(FALSE, t.error)]

\* run_verification(code_patch, test_code): the try block with its handler,
\* then the finally block.  raised: the exception that leaves the call;
\* started: a container was created; removed: it is gone afterwards.
run_verification(code_patch, test_code, b, timeout_seconds) ==
    LET t == TryBlock(code_patch, test_code, b, timeout_seconds)
        c == Caught(t)
    IN  IF t.container
        THEN [ret |-> c.ret, raised |-> c.raised, started |-> TRUE, remove_called |-> TRUE,
              removed |-> b.remove = "ok",
              calls |-> Append(t.calls, Called("remove force", "", b.remove))]
        ELSE [ret |-> c.ret, raised |-> c.raised, started |-> FALSE,
              remove_called |-> FALSE, removed |-> FALSE, calls |-> t.calls]

\* The effect of one run_verification call on the backend
SandboxCall(r) ==
    /\ created' = created + (IF r.started THEN 1 ELSE 0)
    /\ remove_calls' = remove_calls + (IF r.remove_called THEN 1 ELSE 0)
    /\ removed' = removed + (IF r.removed THEN 1 ELSE 0)
    /\ instances' = IF r.started /\ ~r.removed THEN instances \cup {created + 1}
                    ELSE instances
    /\ sb_last' = [n |-> sb_last.n + 1, ret |-> r.ret, raised |-> r.raised,
                    calls |-> r.calls]

Verify ==
    /\ sb_last.n < MaxCalls
    /\ \E code \in {C_fix, C_alt}, url \in IssueUrls, b \in BackendBehaviours :
         SandboxCall(run_verification(code.text, run_tests_sh(url), b, DefaultTimeout))

(***************************************************************************)
(* Consensus (agent/coordinator.py).  A candidate is the dict the patch    *)
(* source yielded; has_id / has_code say whether the key is present.       *)
(***************************************************************************)
PreviewChars == 80

Candidate(miner_id, code) ==
    [dict |-> TRUE, has_id |-> TRUE, miner_id |-> miner_id, has_code |-> TRUE, code |-> code]

\* cand.get("miner_id", "Unknown")
GetMinerId(cand) == IF cand.has_id THEN cand.miner_id ELSE "Unknown"
\* cand.get("code", "")
GetCode(cand) == IF cand.has_code THEN cand.code ELSE C_empty

RECURSIVE RstripEach(_)
RstripEach(lines) ==
    IF lines = <<>> THEN <<>> ELSE <<rstrip(Head(lines))>> \o RstripEach(Tail(lines))

\* (code or ""): code is a str or None
OrEmpty(code) == IF code.none THEN <<>> ELSE code.text

\* the same without the two strip() calls around it
_normalize_code_unstripped(text) == join(<<"\n">>, RstripEach(splitlines(text)))

\* "\n".join(line.rstrip() for line in (code or "").strip().splitlines()).strip()
_normalize_code(text) == strip(join(<<"\n">>, RstripEach(splitlines(strip(text)))))

NormOf(cand) == _normalize_code(GetCode(cand).text)

\* the loop of lines 144-149 appending the candidate only to a bucket that
\* exists already
RECURSIVE BuildBuckets_drops_opener(_, _, _)
BuildBuckets_drops_opener(ps, i, acc) ==
    IF i > Len(ps) THEN acc
    ELSE LET code  == NormOf(ps[i])
             known == \E k \in 1..Len(acc.order) : acc.order[k] = code
         IN  IF known
             THEN LET k == CHOOSE k \in 1..Len(acc.order) : acc.order[k] = code
                  IN  BuildBuckets_drops_opener(ps, i + 1,
                                                [acc EXCEPT !.buckets[k] = Append(@, i)])
             ELSE BuildBuckets_drops_opener(ps, i + 1,
                                            [order   |-> Append(acc.order, code),
                                             buckets |-> Append(acc.buckets, <<>>)])

\* lines 143-149, the loop from candidate i on: order, and buckets as a
\* sequence parallel to it, each bucket the positions in ps appended to it
RECURSIVE BuildBuckets(_, _, _)
BuildBuckets(ps, i, acc) ==
    IF i > Len(ps) THEN acc
    ELSE LET code   == NormOf(ps[i])
             known  == \E k \in 1..Len(acc.order) : acc.order[k] = code
             opened == IF known THEN acc
                       ELSE [order   |-> Append(acc.order, code),
                             buckets |-> Append(acc.buckets, <<>>)]
             k      == CHOOSE k \in 1..Len(opened.order) : opened.order[k] = code
         IN  BuildBuckets(ps, i + 1, [opened EXCEPT !.buckets[k] = Append(@, i)])

\* buckets = {}; order = []
NoBuckets == [order |-> <<>>, buckets |-> <<>>]

\* order: the distinct normalized codes, first seen first
RECURSIVE BucketOrder(_, _)
BucketOrder(ps, order) ==
    IF ps = <<>> THEN order
    ELSE LET code == NormOf(Head(ps))
         IN  BucketOrder(Tail(ps),
                         IF \E k \in 1..Len(order) : order[k] = code
                         THEN order ELSE Append(order, code))

\* buckets[code]: the positions in ps of its candidates, in order
Bucket(ps, code) ==
    SelectSeq([i \in 1..Len(ps) |-> i], LAMBDA i : NormOf(ps[i]) = code)

\* the same with `>=` for `>`: a later bucket with as many votes wins
RECURSIVE BestBucket_ties_to_later(_, _, _, _, _)
BestBucket_ties_to_later(ps, order, k, best, best_count) ==
    IF k > Len(order) THEN best
    ELSE LET count == Len(Bucket(ps, order[k]))
         IN  IF count >= best_count
             THEN BestBucket_ties_to_later(ps, order, k + 1, k, count)
             ELSE BestBucket_ties_to_later(ps, order, k + 1, best, best_count)

\* for code in order: if count > best_count: ...; the position in order of best_code
RECURSIVE BestBucket(_, _, _, _, _)
BestBucket(ps, order, k, best, best_count) ==
    IF k > Len(order) THEN best
    ELSE LET count == Len(Bucket(ps, order[k]))
         IN  IF count > best_count
             THEN BestBucket(ps, order, k + 1, k, count)
             ELSE BestBucket(ps, order, k + 1, best, best_count)

\* a selector whose pick within the winning bucket varies from call to call
_select_consensus_winner_any_member(ps) ==
    LET order == BucketOrder(ps, <<>>)
        best  == BestBucket(ps, order, 1, 0, -1)
        b     == Bucket(ps, order[best])
    IN  b[(Len(sel_out) % Len(b)) + 1]

\* _select_consensus_winner(passing_candidates): the position in ps of the winner
_select_consensus_winner(ps) ==
    LET order == BucketOrder(ps, <<>>)
        best  == BestBucket(ps, order, 1, 0, -1)
    IN  Bucket(ps, order[best])[1]

\* the same sort without reverse=True: fewest votes first
RECURSIVE SortByVotes_ascending(_, _)
SortByVotes_ascending(rows, sorted) ==
    IF rows = <<>> THEN sorted
    ELSE LET r   == Head(rows)
             pos == Cardinality({k \in 1..Len(sorted) : sorted[k].votes <= r.votes})
         IN  SortByVotes_ascending(Tail(rows),
                         SubSeq(sorted, 1, pos) \o <<r>> \o SubSeq(sorted, pos + 1, Len(sorted)))

\* a descending sort that is not stable: of equal votes the later comes first
RECURSIVE SortByVotes_unstable(_, _)
SortByVotes_unstable(rows, sorted) ==
    IF rows = <<>> THEN sorted
    ELSE LET r   == Head(rows)
             pos == Cardinality({k \in 1..Len(sorted) : sorted[k].votes > r.votes})
         IN  SortByVotes_unstable(Tail(rows),
                         SubSeq(sorted, 1, pos) \o <<r>> \o SubSeq(sorted, pos + 1, Len(sorted)))

\* sorted(rows, key=votes, reverse=True): stable, equal votes keep their order
RECURSIVE SortByVotes(_, _)
SortByVotes(rows, sorted) ==
    IF rows = <<>> THEN sorted
    ELSE LET r   == Head(rows)
             pos == Cardinality({k \in 1..Len(sorted) : sorted[k].votes >= r.votes})
         IN  SortByVotes(Tail(rows),
                         SubSeq(sorted, 1, pos) \o <<r>> \o SubSeq(sorted, pos + 1, Len(sorted)))

\* (code.splitlines()[0] if code else "").strip()[:80]
Preview(code) ==
    Prefix(strip(IF code = <<>> THEN <<>> ELSE splitlines(code)[1]), PreviewChars)

RECURSIVE MinerIds(_, _)
MinerIds(ps, positions) ==
    IF positions = <<>> THEN <<>>
    ELSE <<GetMinerId(ps[Head(positions)])>> \o MinerIds(ps, Tail(positions))

\* _consensus_report(passing_candidates, winner)
_consensus_report(ps, w) ==
    LET order == BucketOrder(ps, <<>>)
        rows  == [k \in 1..Len(order) |->
                    [votes   |-> Len(Bucket(ps, order[k])),
                     miners  |-> MinerIds(ps, Bucket(ps, order[k])),
                     preview |-> Preview(order[k])]]
    IN  [passing |-> Len(ps), unique |-> Len(order),
         rows |-> SortByVotes(rows, <<>>),
         winner |-> GetMinerId(w)]

(***************************************************************************)
(* Initial values of each component.                                       *)
(***************************************************************************)
GateNotCalled ==
    [raised |-> "none", ok |-> FALSE, reason |-> [rule |-> "not called", name |-> ""]]

GateIdle ==
    /\ gate_in = [code |-> C_empty, max_chars |-> 0]
    /\ gate_out = GateNotCalled

SandboxIdle ==
    /\ instances = {}
    /\ created = 0
    /\ removed = 0
    /\ remove_calls = 0
    /\ sb_last = [n |-> 0, ret |-> Outcome(FALSE, "not called"), raised |-> "none",
                   calls |-> <<>>]

RunIdle ==
    /\ pc = "idle"
    /\ issue_url = [netloc |-> "", path |-> <<>>]
    /\ source = "idle"
    /\ candidates = <<>>
    /\ idx = 0
    /\ logs = <<>>
    /\ passing = <<>>
    /\ validation_blocked = 0
    /\ winner = 0
    /\ events = <<>>
    /\ history = <<>>

NormNotCalled == [called |-> FALSE, once |-> <<>>, twice |-> <<>>]

ConsensusIdle ==
    /\ sel_in = <<>>
    /\ sel_out = <<>>
    /\ sel_report = <<>>
    /\ norm_in = [none |-> TRUE, text |-> <<>>]
    /\ norm_out = NormNotCalled

(***************************************************************************)
(* SpecMerchant: any sequence of calls on one X402Merchant.                *)
(***************************************************************************)
InitMerchant ==
    /\ mode \in Modes
    /\ MerchantInit
    /\ GateIdle /\ SandboxIdle /\ RunIdle /\ ConsensusIdle

NextMerchant ==
    \/ Lock    /\ UNCHANGED <<gateVars, sandboxVars, runVars, consensusVars>>
    \/ Check   /\ UNCHANGED <<gateVars, sandboxVars, runVars, consensusVars>>
    \/ Release /\ UNCHANGED <<gateVars, sandboxVars, runVars, consensusVars>>

SpecMerchant == InitMerchant /\ [][NextMerchant]_vars

(***************************************************************************)
(* Claims about X402Merchant, checked under SpecMerchant.                  *)
(***************************************************************************)
\* The invoice stored under the id of the last call, now
Now == Stored(active_invoices, lastOp.id)

\* C2: in any sequence of create_locked_content, verify_payment and
\* retrieve_content calls, an invoice whose status is paid is still stored
\* and still paid after the next call.
C2_PaidNeverUnpaid ==
    [][\A id \in DOMAIN active_invoices :
          active_invoices[id].status = "paid"
          => /\ id \in DOMAIN active_invoices'
             /\ active_invoices'[id].status = "paid"]_vars

\* C3: retrieve_content returns the stored content exactly when the invoice
\* exists and is paid; otherwise it raises PermissionError and returns nothing.
C3_ReleaseOnlyWhenPaid ==
    lastOp.op = "retrieve_content"
    => IF lastOp.id \in DOMAIN active_invoices /\ Now.status = "paid"
       THEN lastOp.raised = "none" /\ lastOp.content = Now.content
       ELSE lastOp.raised = "PermissionError" /\ lastOp.content = NoContent

C3_RefusedUnpaid ==
    /\ lastOp.op = "retrieve_content"
    /\ lastOp.id \in DOMAIN active_invoices
    /\ Now.status = "unpaid"
    /\ lastOp.raised = "PermissionError"

SaysPaid(gw) == gw.paid = "True" \/ gw.status = "paid"

\* C34: a verify_payment call that got a successful gateway answer about an
\* unpaid invoice returns true and marks the invoice paid exactly when the
\* answer's paid field is boolean true or its status field is the string
\* "paid"; on every other answer it returns false and the invoice stays unpaid.
C34_ConfirmationIsTrueOrPaid ==
    (lastOp.op = "verify_payment" /\ lastOp.gw.kind = "json" /\ lastOp.was.status = "unpaid")
    => /\ Now.status = "paid" <=> SaysPaid(lastOp.gw)
       /\ lastOp.ret = "True" <=> SaysPaid(lastOp.gw)
       /\ lastOp.ret \in {"True", "False"}

\* C37: when verify_payment returns for an existing invoice, it returns
\* true exactly when the stored status of that invoice is paid.
C37_ReturnAgreesWithStatus ==
    (lastOp.op = "verify_payment" /\ lastOp.id \in DOMAIN active_invoices)
    => (lastOp.ret = "True" <=> Now.status = "paid")

\* C6: every create_locked_content stores an unpaid invoice under an id no
\* earlier invoice of the merchant has, so it replaces no stored invoice.
C6_LockUsesFreshId ==
    lastOp.op = "create_locked_content"
    => /\ lastOp.was = NoInvoice
       /\ Now.status = "unpaid"

\* C7: when the settlement query fails, verify_payment returns False, raises
\* nothing, and the invoice is stored exactly as before.
C7_QueryFailureKeepsInvoice ==
    (lastOp.op = "verify_payment" /\ lastOp.gw \in GatewayFailures)
    => /\ lastOp.ret = "False"
       /\ lastOp.raised = "none"
       /\ lastOp.id \in DOMAIN active_invoices
       /\ Now = lastOp.was

C7_FailedQueryOnUnpaid ==
    /\ lastOp.op = "verify_payment"
    /\ lastOp.gw.kind = "HTTPError"
    /\ lastOp.was.status = "unpaid"
    /\ Now.status = "unpaid"

(***************************************************************************)
(* SpecConcurrent: MaxThreads threads call verify_payment at once for the  *)
(* id of one invoice that create_locked_content has stored.                *)
(***************************************************************************)
InitConcurrent ==
    /\ mode \in Modes
    /\ clock = 1
    /\ \E u \in UUIDs, content \in Contents :
         LET r == create_locked_content(<<>>, mode, u, content, DefaultPrice, 0)
         IN  /\ active_invoices = r.invoices
             /\ issued = {u}
             /\ lastOp = [NoOp EXCEPT !.op = "create_locked_content", !.id = r.ret.invoice_id]
    /\ threads = [t \in 1..MaxThreads |-> NotCalled]
    /\ GateIdle /\ SandboxIdle /\ RunIdle /\ ConsensusIdle

NextConcurrent ==
    \E t \in 1..MaxThreads :
       \/ ThreadLookup(t) /\ UNCHANGED <<gateVars, sandboxVars, runVars, consensusVars>>
       \/ ThreadDemo(t)   /\ UNCHANGED <<gateVars, sandboxVars, runVars, consensusVars>>
       \/ ThreadQuery(t)  /\ UNCHANGED <<gateVars, sandboxVars, runVars, consensusVars>>
       \/ ThreadWrite(t)  /\ UNCHANGED <<gateVars, sandboxVars, runVars, consensusVars>>

SpecConcurrent == InitConcurrent /\ [][NextConcurrent]_vars

\* the invoice the threads are asked about
Asked == Stored(active_invoices, lastOp.id)

\* thread t received a positive confirmation
Confirmed(t) ==
    \/ threads[t].pc = "returned" /\ threads[t].ret = "True"
    \/ threads[t].pc = "answered" /\ threads[t].paid

\* C32: in every interleaving of concurrent verify_payment calls for one
\* invoice id, the invoice is paid once a call that received a positive
\* confirmation has returned, a paid status is never reverted, and the
\* record keeps its id and its other fields.
C32_ConcurrentChecksAreAtomic ==
    /\ [](\A t \in DOMAIN threads :
             (threads[t].pc = "returned" /\ Confirmed(t)) => Asked.status = "paid")
    /\ []((\A t \in DOMAIN threads : threads[t].pc = "returned")
          => (Asked.status = "paid" <=> \E t \in DOMAIN threads : Confirmed(t)))
    /\ [][Asked.status = "paid" => Asked'.status = "paid"]_vars
    /\ [][/\ DOMAIN active_invoices' = DOMAIN active_invoices
          /\ Asked' = [Asked EXCEPT !.status = Asked'.status]
          /\ Asked'.status \in {"unpaid", "paid"}]_vars

\* both calls have returned, one told by the gateway that the invoice is
\* paid and the other that it is not, and the invoice is paid
C32_DeniedAfterConfirmed ==
    /\ threads # <<>>
    /\ threads[1].pc = "returned" /\ threads[1].ret = "True" /\ threads[1].gw.kind = "json"
    /\ threads[2].pc = "returned" /\ threads[2].ret = "False" /\ threads[2].gw.kind = "json"
    /\ Asked.status = "paid"

(***************************************************************************)
(* SpecGate: one call of validate_patch_code on any bounded input.         *)
(***************************************************************************)
GateChars == {"x", " "}
GateTexts == UNION {[1..n -> GateChars] : n \in 0..MaxLen}
GateNodes == {N_fix, N_helper, N_async, N_imp_os, N_imp_json, N_from_sub, N_from_rel,
              N_eval, N_print, N_attr_ev}
GateTrees == UNION {[1..n -> GateNodes] : n \in 0..MaxNodes}
GateCodes ==
    {Code(t, "tree", ns) : t \in GateTexts, ns \in GateTrees}
    \cup {Code(t, p, <<>>) : t \in GateTexts, p \in {"SyntaxError", "OtherError"}}

InitGate ==
    /\ gate_in \in [code : GateCodes, max_chars : {SmallCeiling, DefaultMaxChars}]
    /\ gate_out = GateNotCalled
    /\ mode = "demo" /\ MerchantInit /\ SandboxIdle /\ RunIdle /\ ConsensusIdle

Validate ==
    /\ gate_out = GateNotCalled
    /\ gate_out' = validate_patch_code(gate_in.code, RequireFunction, gate_in.max_chars)
    /\ UNCHANGED gate_in

NextGate == Validate /\ UNCHANGED <<merchantVars, sandboxVars, runVars, consensusVars>>

SpecGate == InitGate /\ [][NextGate]_vars

(***************************************************************************)
(* Claims about validate_patch_code, checked under SpecGate.               *)
(***************************************************************************)
\* The six rules, read off the input alone
R_Empty(in)     == strip(in.code.text) = <<>>
R_TooLarge(in)  == Len(in.code.text) > in.max_chars
R_NoParse(in)   == in.code.parse # "tree"
R_Import(in, m) ==
    /\ m \in _DEFAULT_FORBIDDEN_MODULES
    /\ \E i \in 1..Len(in.code.nodes) :
         LET n == in.code.nodes[i]
         IN  \/ n.kind = "Import" /\ \E k \in 1..Len(n.names) : FirstPart(n.names[k]) = m
             \/ n.kind = "ImportFrom" /\ FirstPart(n.module) = m
R_Call(in, f) ==
    /\ f \in _DEFAULT_FORBIDDEN_CALLS
    /\ \E i \in 1..Len(in.code.nodes) :
         LET n == in.code.nodes[i]
         IN  n.kind = "Call" /\ n.func = "Name" /\ n.id = f
R_Missing(in) ==
    ~ \E i \in 1..Len(in.code.nodes) :
         in.code.nodes[i].kind = "FunctionDef" /\ in.code.nodes[i].name = RequireFunction

ViolatesARule(in) ==
    \/ R_Empty(in) \/ R_TooLarge(in) \/ R_NoParse(in) \/ R_Missing(in)
    \/ \E m \in _DEFAULT_FORBIDDEN_MODULES : R_Import(in, m)
    \/ \E f \in _DEFAULT_FORBIDDEN_CALLS : R_Call(in, f)

\* the reason names a rule the input does violate
ReasonFits(in, reason) ==
    \/ reason.rule = "Empty patch" /\ R_Empty(in)
    \/ reason.rule = "Patch too large" /\ R_TooLarge(in)
    \/ reason.rule = "Syntax error" /\ R_NoParse(in)
    \/ reason.rule = "Forbidden import" /\ R_Import(in, reason.name)
    \/ reason.rule = "Forbidden call" /\ R_Call(in, reason.name)
    \/ reason.rule = "Missing required function" /\ R_Missing(in)
       /\ reason.name = RequireFunction

\* C9: for every text that violates one of the six rules, validate_patch_code
\* returns ok = False with a reason naming a rule (and module or call) the
\* text violates.
C9_ViolationIsRejectedWithReason ==
    (gate_out # GateNotCalled /\ ViolatesARule(gate_in))
    => /\ gate_out.raised = "none"
       /\ gate_out.ok = FALSE
       /\ ReasonFits(gate_in, gate_out.reason)

\* the reason of the lowest-numbered rule the input violates, "OK" if none
LowestViolatedRule(in) ==
    IF R_Empty(in) THEN "Empty patch"
    ELSE IF R_TooLarge(in) THEN "Patch too large"
    ELSE IF R_NoParse(in) THEN "Syntax error"
    ELSE IF \E m \in _DEFAULT_FORBIDDEN_MODULES : R_Import(in, m) THEN "Forbidden import"
    ELSE IF \E f \in _DEFAULT_FORBIDDEN_CALLS : R_Call(in, f) THEN "Forbidden call"
    ELSE IF R_Missing(in) THEN "Missing required function"
    ELSE "OK"

\* C11: whenever validate_patch_code returns, its reason is that of the
\* lowest-numbered rule the text violates (empty, too large, parse failure,
\* forbidden import, forbidden call, missing function), wherever in the
\* text the offending constructs stand.
C11_FirstRuleInOrderWins ==
    (gate_out # GateNotCalled /\ gate_out.raised = "none")
    => gate_out.reason.rule = LowestViolatedRule(gate_in)

(***************************************************************************)
(* SpecSandbox: any sequence of run_verification calls on one sandbox.     *)
(***************************************************************************)
InitSandbox ==
    /\ SandboxIdle
    /\ mode = "demo" /\ MerchantInit /\ GateIdle /\ RunIdle /\ ConsensusIdle

NextSandbox == Verify /\ UNCHANGED <<merchantVars, gateVars, runVars, consensusVars>>

SpecSandbox == InitSandbox /\ [][NextSandbox]_vars

(***************************************************************************)
(* Claims about run_verification, checked under SpecSandbox.               *)
(***************************************************************************)
\* C8: after any sequence of run_verification calls, whatever their
\* outcomes, as many instances have been removed as were created.
C8_CreatedEqualsRemoved == created = removed

\* the outcome of the backend call <name> in the last run_verification
\* ("not made" if the call was not reached)
LastCall(name) ==
    IF \E k \in 1..Len(sb_last.calls) : sb_last.calls[k].call = name
    THEN sb_last.calls[CHOOSE k \in 1..Len(sb_last.calls) : sb_last.calls[k].call = name].out
    ELSE "not made"

\* C23: run_verification reports success exactly when the instance exited
\* with status zero within the timeout (and its output could be read); a
\* non-zero status, a missing status, a timeout and an engine error all
\* give success = False.
C23_SuccessIffExitZero ==
    sb_last.n > 0
    => /\ sb_last.raised = "none"
       /\ sb_last.ret.success <=> (LastCall("wait") = "exit 0" /\ LastCall("logs") = "ok")
       /\ (\/ LastCall("wait") \in {"exit 1", "no StatusCode", "timeout", "raises", "not made"}
           \/ LastCall("logs") = "raises")
          => ~sb_last.ret.success

C23_PassedWithExitZero ==
    /\ sb_last.n > 0
    /\ sb_last.ret.success
    /\ LastCall("wait") = "exit 0"

\* the position in the last run_verification of the backend call <name>
\* (0 if the call was not reached)
LastCallAt(name) ==
    IF \E k \in 1..Len(sb_last.calls) : sb_last.calls[k].call = name
    THEN CHOOSE k \in 1..Len(sb_last.calls) : sb_last.calls[k].call = name
    ELSE 0

\* C27: in every verification that starts an instance, both artifacts have
\* been put into the instance before its entry command is started.
C27_ArtifactsBeforeEntryCommand ==
    (sb_last.n > 0 /\ LastCall("containers.run") = "ok")
    => /\ LastCall("put_archive solution.py") = "ok"
       /\ LastCall("put_archive test_suite.py") = "ok"
       /\ LastCallAt("put_archive solution.py") < LastCallAt("containers.run")
       /\ LastCallAt("put_archive test_suite.py") < LastCallAt("containers.run")

\* C29: whenever an instance ran (it passed, exited non-zero or timed out),
\* the logs run_verification returns are the captured output of the
\* instance.
C29_LogsAreTheInstanceOutput ==
    (/\ sb_last.n > 0
     /\ LastCall("wait") \in {"exit 0", "exit 1", "no StatusCode", "timeout"}
     /\ LastCall("logs") # "raises")
    => sb_last.ret.logs.text = "container output"

\* C38: run_verification returns the failure "Sandbox timeout after N s"
\* only when container.wait exceeded the configured timeout, and then with
\* the configured N; a wait that fails for another reason is not returned
\* as a timeout.
C38_TimeoutTextOnlyOnTimeout ==
    /\ (sb_last.n > 0 /\ sb_last.ret.logs.text = "Sandbox timeout after")
       => LastCall("wait") = "timeout" /\ sb_last.ret.logs.seconds = DefaultTimeout
    /\ (sb_last.n > 0 /\ LastCall("wait") = "raises")
       => sb_last.ret.logs.text # "Sandbox timeout after"

(***************************************************************************)
(* AgentCoordinator.solve_issue (agent/coordinator.py), a generator: each  *)
(* action runs it to its next yield (or, inside the candidate loop, to the *)
(* next call of a collaborator).                                           *)
(***************************************************************************)
\* what the patch source can yield as a candidate
NotADict  == [dict |-> FALSE, has_id |-> FALSE, miner_id |-> "", has_code |-> FALSE, code |-> C_empty]
Anonymous == [dict |-> TRUE, has_id |-> FALSE, miner_id |-> "", has_code |-> TRUE, code |-> C_deep]
Pool ==
    {Candidate("miner-a", C_fix), Candidate("miner-b", C_fix_ws), Candidate("miner-c", C_alt),
     Candidate("miner-d", C_import), Anonymous, NotADict}

\* the backend behaviours a run is checked against: a passing run, a failing
\* one, a timeout, an engine that cannot start, a timeout followed by a
\* removal that fails, and a runtime that fails while waiting
Behaviour(run, wait, remove) ==
    [run |-> run, put1 |-> "ok", put2 |-> "ok", wait |-> wait, kill |-> "ok",
     logs |-> "ok", remove |-> remove]
RunBehaviours ==
    {Behaviour("ok", "exit 0", "ok"), Behaviour("ok", "exit 1", "ok"),
     Behaviour("ok", "timeout", "ok"), Behaviour("raises", "exit 0", "ok"),
     Behaviour("ok", "timeout", "raises"), Behaviour("ok", "raises", "ok")}

NoReason == [rule |-> "", name |-> ""]
NoBundle == [winner |-> "", verification_logs |-> <<>>,
             payment_link |-> [url |-> "", invoice_id |-> <<>>, amount |-> ""],
             invoice_id |-> <<>>]
\* yield type, text: the text's template, the miner id and reason put into it
Yield(type, msg, miner, reason) ==
    [type |-> type, msg |-> msg, miner |-> miner, reason |-> reason, bundle |-> NoBundle]
YieldComplete(bundle) ==
    [type |-> "complete", msg |-> "", miner |-> "", reason |-> NoReason, bundle |-> bundle]

Emit(e) == events' = Append(events, e)

Done(v) == [gate |-> v, verified |-> FALSE, success |-> FALSE, instances |-> 0,
            timed_out |-> FALSE, killed |-> FALSE, removed |-> FALSE,
            engine_error |-> FALSE, raised |-> "none",
            sandbox_logs |-> Outcome(FALSE, "not called").logs]

\* an engine-level error: the instance cannot be started, an artifact cannot
\* be injected, the runtime fails while waiting, the output cannot be read
EngineError(b) ==
    \/ b.run = "raises"
    \/ b.put1 = "raises" \/ b.put2 = "raises"
    \/ b.wait = "raises"
    \/ b.wait \in {"exit 0", "exit 1", "no StatusCode"} /\ b.logs = "raises"

\* container.<name>(...) was called in r
Did(r, name) == \E k \in 1..Len(r.calls) : r.calls[k].call = name

\* except Exception as e (line 134): the run-level error event, and the end
TopLevel_uncaught == [pc |-> "raised", event |-> <<>>]
TopLevel ==
    [pc |-> "done",
     event |-> <<Yield("error", "Unexpected error in workflow", "", NoReason)>>]

RECURSIVE Pick(_, _)
Pick(seq, positions) ==
    IF positions = <<>> THEN <<>> ELSE <<seq[Head(positions)]>> \o Pick(seq, Tail(positions))

InitRunVars ==
    /\ pc = "start"
    /\ issue_url \in IssueUrls
    /\ source = "closed"
    /\ candidates = <<>>
    /\ idx = 0
    /\ logs = <<>>
    /\ passing = <<>>
    /\ validation_blocked = 0
    /\ winner = 0
    /\ events = <<>>
    /\ history = <<>>

\* line 32
Start ==
    /\ pc = "start"
    /\ Emit(Yield("event", "Analyzing Issue", "", NoReason))
    /\ pc' = "delegate"
    /\ UNCHANGED <<issue_url, source, candidates, idx, logs, passing, validation_blocked,
                   winner, history>>
    /\ UNCHANGED <<merchantVars, sandboxVars>>

\* lines 35-38
Delegate ==
    /\ pc = "delegate"
    /\ Emit(Yield("event", "Delegating to Miner Network", "", NoReason))
    /\ pc' = "collect"
    /\ source' = "open"
    /\ UNCHANGED <<issue_url, candidates, idx, logs, passing, validation_blocked,
                   winner, history>>
    /\ UNCHANGED <<merchantVars, sandboxVars>>

\* lines 40-42: the source yields a progress notification
SourceNote ==
    /\ pc = "collect" /\ source = "open"
    /\ candidates = <<>>
    /\ Cardinality({i \in 1..Len(events) : events[i].msg = "source note"}) < MaxNotes
    /\ Emit(Yield("event", "source note", "", NoReason))
    /\ UNCHANGED <<pc, issue_url, source, candidates, idx, logs, passing,
                   validation_blocked, winner, history>>
    /\ UNCHANGED <<merchantVars, sandboxVars>>

\* lines 43-46 and 48-50: the source yields a candidate
SourceCandidate ==
    /\ pc = "collect" /\ source = "open"
    /\ Len(candidates) < MaxCands
    /\ \E cand \in Pool :
         /\ candidates' = Append(candidates, cand)
         /\ IF cand.dict
            THEN /\ Emit(Yield("event", "Patch received from", GetMinerId(cand), NoReason))
                 /\ UNCHANGED <<pc, source>>
            ELSE \* cand.get raises
                 /\ events' = events \o TopLevel.event
                 /\ pc' = TopLevel.pc
                 /\ source' = "abandoned"
    /\ UNCHANGED <<issue_url, idx, logs, passing, validation_blocked, winner, history>>
    /\ UNCHANGED <<merchantVars, sandboxVars>>

\* the source raises, before its first candidate or in mid-stream
SourceRaises ==
    /\ pc = "collect" /\ source = "open"
    /\ events' = events \o TopLevel.event
    /\ pc' = TopLevel.pc
    /\ source' = "raised"
    /\ UNCHANGED <<issue_url, candidates, idx, logs, passing, validation_blocked,
                   winner, history>>
    /\ UNCHANGED <<merchantVars, sandboxVars>>

\* the same without the `return` of line 56
SourceEnds_no_return ==
    /\ pc = "collect" /\ source = "open"
    /\ source' = "exhausted"
    /\ IF candidates = <<>>
       THEN /\ Emit(Yield("error", "No solutions received from miner network", "", NoReason))
            /\ pc' = "after"
            /\ UNCHANGED idx
       ELSE /\ pc' = "loop"
            /\ idx' = 1
            /\ UNCHANGED events
    /\ UNCHANGED <<issue_url, candidates, logs, passing, validation_blocked, winner, history>>
    /\ UNCHANGED <<merchantVars, sandboxVars>>

\* the source is exhausted: lines 54-56, and on to the loop at 82-86
SourceEnds ==
    /\ pc = "collect" /\ source = "open"
    /\ source' = "exhausted"
    /\ IF candidates = <<>>
       THEN /\ Emit(Yield("error", "No solutions received from miner network", "", NoReason))
            /\ pc' = "done"
            /\ UNCHANGED idx
       ELSE /\ pc' = "loop"
            /\ idx' = 1
            /\ UNCHANGED events
    /\ UNCHANGED <<issue_url, candidates, logs, passing, validation_blocked, winner, history>>
    /\ UNCHANGED <<merchantVars, sandboxVars>>

\* after the body of the loop for candidates[idx]: the next one, or line 109
NextPc == IF idx < Len(candidates) THEN "loop" ELSE "after"

\* the loop body without the `continue` of line 96
ValidateStep_falls_through(cand) ==
    LET miner_id == GetMinerId(cand)
        v        == validate_patch_code(GetCode(cand), RequireFunction, DefaultMaxChars)
    IN  IF v.raised # "none"
        THEN [pc |-> NextPc, step |-> 1, blocked |-> 0, log |-> <<>>, gate |-> "raised",
              event |-> Yield("error", "Error testing", miner_id, NoReason)]
        ELSE IF ~v.ok
        THEN [pc |-> "verify", step |-> 0, blocked |-> 1, gate |-> "blocked",
              log |-> <<[kind |-> "candidate", miner |-> miner_id, result |-> "BLOCKED",
                         reason |-> v.reason]>>,
              event |-> Yield("event", "Patch blocked", miner_id, v.reason)]
        ELSE [pc |-> "verify", step |-> 0, blocked |-> 0, log |-> <<>>, gate |-> "accepted",
              event |-> Yield("event", "Testing Patch in Sandbox", miner_id, NoReason)]

\* the loop body starting the verification of an accepted candidate in the
\* background and going on to the next candidate
ValidateStep_defers_verification(cand) ==
    LET miner_id == GetMinerId(cand)
        v        == validate_patch_code(GetCode(cand), RequireFunction, DefaultMaxChars)
    IN  IF v.raised # "none"
        THEN [pc |-> NextPc, step |-> 1, blocked |-> 0, log |-> <<>>, gate |-> "raised",
              event |-> Yield("error", "Error testing", miner_id, NoReason)]
        ELSE IF ~v.ok
        THEN [pc |-> NextPc, step |-> 1, blocked |-> 1, gate |-> "blocked",
              log |-> <<[kind |-> "candidate", miner |-> miner_id, result |-> "BLOCKED",
                         reason |-> v.reason]>>,
              event |-> Yield("event", "Patch blocked", miner_id, v.reason)]
        ELSE [pc |-> NextPc, step |-> 1, blocked |-> 0, log |-> <<>>, gate |-> "accepted",
              event |-> Yield("event", "Testing Patch in Sandbox", miner_id, NoReason)]

\* lines 86-98 and 105-107: one candidate, up to the call of the sandbox
ValidateStep(cand) ==
    LET miner_id == GetMinerId(cand)
        v        == validate_patch_code(GetCode(cand), RequireFunction, DefaultMaxChars)
    IN  IF v.raised # "none"
        THEN [pc |-> NextPc, step |-> 1, blocked |-> 0, log |-> <<>>, gate |-> "raised",
              event |-> Yield("error", "Error testing", miner_id, NoReason)]
        ELSE IF ~v.ok
        THEN [pc |-> NextPc, step |-> 1, blocked |-> 1, gate |-> "blocked",
              log |-> <<[kind |-> "candidate", miner |-> miner_id, result |-> "BLOCKED",
                         reason |-> v.reason]>>,
              event |-> Yield("event", "Patch blocked", miner_id, v.reason)]
        ELSE [pc |-> "verify", step |-> 0, blocked |-> 0, log |-> <<>>, gate |-> "accepted",
              event |-> Yield("event", "Testing Patch in Sandbox", miner_id, NoReason)]

Validation ==
    /\ pc = "loop"
    /\ candidates[idx].dict
    /\ LET r == ValidateStep(candidates[idx])
       IN  /\ pc' = r.pc
           /\ idx' = idx + r.step
           /\ validation_blocked' = validation_blocked + r.blocked
           /\ logs' = logs \o r.log
           /\ Emit(r.event)
           /\ history' = Append(history, Done(r.gate))
    /\ UNCHANGED <<issue_url, source, candidates, passing, winner>>
    /\ UNCHANGED <<merchantVars, sandboxVars>>

\* lines 99-104 without the test of line 103
VerifyStep_keeps_all(i, r) ==
    IF r.raised # "none"
    THEN [log |-> <<>>, passing |-> <<>>,
          event |-> <<Yield("error", "Error testing", GetMinerId(candidates[i]), NoReason)>>]
    ELSE [log |-> <<[kind |-> "candidate", miner |-> GetMinerId(candidates[i]),
                     result |-> IF r.ret.success THEN "PASS" ELSE "FAIL",
                     sandbox_logs |-> r.ret.logs]>>,
          passing |-> <<i>>,
          event |-> <<>>]

\* lines 99-107: the sandbox call for candidates[idx] and what is kept of it
VerifyStep(i, r) ==
    IF r.raised # "none"
    THEN [log |-> <<>>, passing |-> <<>>,
          event |-> <<Yield("error", "Error testing", GetMinerId(candidates[i]), NoReason)>>]
    ELSE [log |-> <<[kind |-> "candidate", miner |-> GetMinerId(candidates[i]),
                     result |-> IF r.ret.success THEN "PASS" ELSE "FAIL",
                     sandbox_logs |-> r.ret.logs]>>,
          passing |-> IF r.ret.success THEN <<i>> ELSE <<>>,
          event |-> <<>>]

Verification ==
    /\ pc = "verify"
    /\ \E b \in RunBehaviours :
         LET r == run_verification(GetCode(candidates[idx]).text, run_tests_sh(issue_url),
                                   b, DefaultTimeout)
             k == VerifyStep(idx, r)
         IN  /\ SandboxCall(r)
             /\ logs' = logs \o k.log
             /\ passing' = passing \o k.passing
             /\ events' = events \o k.event
             /\ history' = [history EXCEPT ![idx] =
                               [@ EXCEPT !.verified = TRUE,
                                         !.success = r.raised = "none" /\ r.ret.success,
                                         !.engine_error = EngineError(b),
                                         !.raised = r.raised,
                                         !.instances = IF r.started THEN 1 ELSE 0,
                                         !.timed_out = b.wait = "timeout",
                                         !.killed = Did(r, "kill"),
                                         !.removed = r.removed,
                                         !.sandbox_logs = r.ret.logs]]
    /\ pc' = NextPc
    /\ idx' = idx + 1
    /\ UNCHANGED <<issue_url, source, candidates, validation_blocked, winner>>
    /\ UNCHANGED merchantVars

\* the same going on to the lock with the first candidate instead of ending
NoConsensus_locks_anyway ==
    /\ pc = "after"
    /\ passing = <<>>
    /\ winner' = 1
    /\ Emit(Yield("event", "Winner Found. Creating x402 Lock", GetMinerId(candidates[1]),
                  NoReason))
    /\ pc' = "lock"
    /\ UNCHANGED <<issue_url, source, candidates, idx, logs, passing, validation_blocked,
                   history>>
    /\ UNCHANGED <<merchantVars, sandboxVars>>

\* the same going through the candidates once more instead of ending
NoConsensus_starts_over ==
    /\ pc = "after"
    /\ passing = <<>>
    /\ Len(history) = Len(candidates)
    /\ pc' = "loop"
    /\ idx' = 1
    /\ UNCHANGED <<issue_url, source, candidates, logs, passing, validation_blocked,
                   winner, events, history>>
    /\ UNCHANGED <<merchantVars, sandboxVars>>

\* lines 109-111
NoConsensus ==
    /\ pc = "after"
    /\ passing = <<>>
    /\ Emit(Yield("error", "No consensus reached. All patches failed verification", "", NoReason))
    /\ pc' = "done"
    /\ UNCHANGED <<issue_url, source, candidates, idx, logs, passing, validation_blocked,
                   winner, history>>
    /\ UNCHANGED <<merchantVars, sandboxVars>>

\* lines 113-121
Consensus ==
    /\ pc = "after"
    /\ passing # <<>>
    /\ LET ps     == Pick(candidates, passing)
           w      == passing[_select_consensus_winner(ps)]
           report == _consensus_report(ps, candidates[w])
       IN  /\ winner' = w
           /\ logs' = Append(logs, [kind |-> "consensus", report |-> report,
                                    blocked |-> validation_blocked])
           /\ Emit(Yield("event", "Winner Found. Creating x402 Lock", GetMinerId(candidates[w]),
                         NoReason))
    /\ pc' = "lock"
    /\ UNCHANGED <<issue_url, source, candidates, idx, passing, validation_blocked, history>>
    /\ UNCHANGED <<merchantVars, sandboxVars>>

\* the same, run once more after the first lock
LockAndComplete_again ==
    /\ pc = "lock"
    /\ \E u \in UUIDs \ issued :
         LET r == create_locked_content(active_invoices, mode, u,
                                        GetCode(candidates[winner]), DefaultPrice, clock)
         IN  /\ active_invoices' = r.invoices
             /\ issued' = issued \cup {u}
             /\ lastOp' = [NoOp EXCEPT !.op = "create_locked_content",
                                       !.id = r.ret.invoice_id,
                                       !.was = Stored(active_invoices, r.ret.invoice_id)]
             /\ Emit(YieldComplete([winner |-> GetMinerId(candidates[winner]),
                                    verification_logs |-> logs,
                                    payment_link |-> r.ret.payment_link,
                                    invoice_id |-> r.ret.invoice_id]))
    /\ clock' = clock + 1
    /\ pc' = IF issued = {} THEN "lock" ELSE "done"
    /\ UNCHANGED <<mode, threads>>
    /\ UNCHANGED <<issue_url, source, candidates, idx, logs, passing, validation_blocked,
                   winner, history>>
    /\ UNCHANGED sandboxVars

\* lines 123-132
LockAndComplete ==
    /\ pc = "lock"
    /\ \E u \in UUIDs \ issued :
         LET r == create_locked_content(active_invoices, mode, u,
                                        GetCode(candidates[winner]), DefaultPrice, clock)
         IN  /\ active_invoices' = r.invoices
             /\ issued' = issued \cup {u}
             /\ lastOp' = [NoOp EXCEPT !.op = "create_locked_content",
                                       !.id = r.ret.invoice_id,
                                       !.was = Stored(active_invoices, r.ret.invoice_id)]
             /\ Emit(YieldComplete([winner |-> GetMinerId(candidates[winner]),
                                    verification_logs |-> logs,
                                    payment_link |-> r.ret.payment_link,
                                    invoice_id |-> r.ret.invoice_id]))
    /\ clock' = clock + 1
    /\ pc' = "done"
    /\ UNCHANGED <<mode, threads>>
    /\ UNCHANGED <<issue_url, source, candidates, idx, logs, passing, validation_blocked,
                   winner, history>>
    /\ UNCHANGED sandboxVars

(***************************************************************************)
(* SpecRun: one run of solve_issue, consumed to its end.                   *)
(***************************************************************************)
InitRun ==
    /\ mode \in Modes
    /\ MerchantInit /\ GateIdle /\ SandboxIdle /\ ConsensusIdle
    /\ InitRunVars

NextRun ==
    \/ Start        /\ UNCHANGED <<gateVars, consensusVars>>
    \/ Delegate     /\ UNCHANGED <<gateVars, consensusVars>>
    \/ SourceNote   /\ UNCHANGED <<gateVars, consensusVars>>
    \/ SourceCandidate /\ UNCHANGED <<gateVars, consensusVars>>
    \/ SourceRaises /\ UNCHANGED <<gateVars, consensusVars>>
    \/ SourceEnds   /\ UNCHANGED <<gateVars, consensusVars>>
    \/ Validation   /\ UNCHANGED <<gateVars, consensusVars>>
    \/ Verification /\ UNCHANGED <<gateVars, consensusVars>>
    \/ NoConsensus  /\ UNCHANGED <<gateVars, consensusVars>>
    \/ Consensus    /\ UNCHANGED <<gateVars, consensusVars>>
    \/ LockAndComplete /\ UNCHANGED <<gateVars, consensusVars>>

SpecRun == InitRun /\ [][NextRun]_vars

\* A run consumed to its end, with a source that yields finitely many items
\* and collaborators whose calls return or raise.  The generator is resumed
\* after every yield, so it leaves the statement it is at; the source, after
\* finitely many items, ends or raises, so the run leaves line 40; every
\* call of the gate and of the sandbox comes back, so the loop of line 86
\* goes on to its next candidate.
RunPcs == {"start", "delegate", "collect", "loop", "verify", "after", "lock", "done"}
Resumed ==
    \/ /\ pc \in {"start", "delegate", "collect", "after", "lock"}
       /\ pc' \in RunPcs \ {pc}
       /\ idx' \in {idx, idx + 1}
    \/ /\ pc \in {"loop", "verify"}
       /\ pc' \in RunPcs
       /\ idx' = idx + 1

SpecRunFair == InitRun /\ [][NextRun]_vars /\ WF_<<pc, idx>>(Resumed)

(***************************************************************************)
(* Claims about solve_issue, checked under SpecRun.                        *)
(***************************************************************************)
Completes == {k \in 1..Len(events) : events[k].type = "complete"}

\* C1: in a run that emits complete, the winner is a candidate the gate
\* accepted and whose verification succeeded (so none that was blocked,
\* failed or raised), and it is that candidate's code that is locked.
C1_WinnerWasAcceptedAndPassed ==
    \A k \in Completes :
       /\ winner \in 1..Len(candidates)
       /\ history[winner].gate = "accepted"
       /\ history[winner].verified
       /\ history[winner].success
       /\ events[k].bundle.winner = GetMinerId(candidates[winner])
       /\ active_invoices[events[k].bundle.invoice_id].content = GetCode(candidates[winner])

C1_CompleteWithARejectedRival ==
    /\ Completes # {}
    /\ \E i \in 1..Len(history) : history[i].verified /\ ~history[i].success
    /\ winner = 2

\* C5: while the winner's invoice is unpaid, nothing solve_issue has emitted
\* (the complete bundle with its verification_logs included) contains text
\* taken from the winner's code.
C5_NoWinnerCodeBeforePayment ==
    \A k \in Completes :
       LET b == events[k].bundle
       IN  active_invoices[b.invoice_id].status = "unpaid"
           => \A i \in 1..Len(b.verification_logs) :
                 b.verification_logs[i].kind = "consensus"
                 => \A j \in 1..Len(b.verification_logs[i].report.rows) :
                       LET preview == b.verification_logs[i].report.rows[j].preview
                       IN  preview = <<>>
                           \/ ~Occurs(preview, GetCode(candidates[winner]).text)

\* C10: a candidate the gate rejects is never handed to run_verification,
\* and no instance is created for it: the sandbox is called once per
\* accepted candidate processed, and never for another.
C10_BlockedIsNeverVerified ==
    /\ \A i \in 1..Len(history) :
          history[i].gate # "accepted" => ~history[i].verified /\ history[i].instances = 0
    /\ sb_last.n = Cardinality({i \in 1..Len(history) : history[i].verified})
    /\ created = Cardinality({i \in 1..Len(history) : history[i].instances = 1})

C10_BlockedThenAnotherVerified ==
    /\ pc = "done"
    /\ \E i \in 1..Len(history) : history[i].gate = "blocked"
    /\ \E i \in 1..Len(history) : history[i].verified

LastEvent == events[Len(events)]
NoSolutions     == "No solutions received from miner network"
NoConsensusText == "No consensus reached. All patches failed verification"
Unexpected      == "Unexpected error in workflow"
\* the events that end a run: complete, or an error of the run as a whole
Terminal(e) ==
    \/ e.type = "complete"
    \/ e.type = "error" /\ e.msg \in {NoSolutions, NoConsensusText, Unexpected}
Terminals == {k \in 1..Len(events) : Terminal(events[k])}

\* C14: when the patch source has yielded no candidate, the run ends with
\* the no-candidates outcome, and nothing was validated, verified, selected
\* or locked.
C14_ZeroCandidatesEndsNoCandidates ==
    (pc = "done" /\ candidates = <<>>)
    => /\ LastEvent.type = "error" /\ LastEvent.msg = NoSolutions
       /\ history = <<>> /\ sb_last.n = 0 /\ created = 0
       /\ winner = 0 /\ logs = <<>>
       /\ active_invoices = <<>> /\ issued = {}

\* C15: when every received candidate has been processed and none passed,
\* the run ends with the one no-consensus outcome; the selector and the
\* merchant were not called and no invoice exists.
C15_NonePassedEndsNoConsensus ==
    (/\ pc = "done" /\ candidates # <<>> /\ Len(history) = Len(candidates)
     /\ \A i \in 1..Len(history) : ~history[i].success)
    => /\ LastEvent.type = "error" /\ LastEvent.msg = NoConsensusText
       /\ Terminals = {Len(events)}
       /\ winner = 0
       /\ \A k \in 1..Len(logs) : logs[k].kind # "consensus"
       /\ active_invoices = <<>> /\ issued = {}

C15_OneBlockedOneFailed ==
    /\ pc = "done" /\ Len(history) = 2
    /\ history[1].gate = "blocked"
    /\ history[2].verified /\ ~history[2].success
    /\ LastEvent.msg = NoConsensusText

\* C16: a verification that exceeds the timeout gives that candidate a
\* failure classified as timeout, its instance is killed and removed, and
\* the run goes on with the candidates after it.
C16_TimeoutFailsCleansUpAndGoesOn ==
    \A i \in 1..Len(history) :
       history[i].timed_out
       => /\ history[i].verified /\ ~history[i].success
          /\ history[i].sandbox_logs = TimedOut(DefaultTimeout).logs
          /\ \A k \in 1..Len(passing) : passing[k] # i
          /\ history[i].killed
          /\ history[i].removed
          /\ pc = "done" => Len(history) = Len(candidates)

\* C17: a fault of one candidate (rejection, failing verification, an
\* exception while handling it, a malformed record) does not end the run:
\* unless the source itself raised, every received candidate has been
\* validated and, if accepted, verified when the run ends.
C17_CandidateFaultNeverEndsTheRun ==
    (pc = "done" /\ candidates # <<>> /\ source # "raised")
    => /\ Len(history) = Len(candidates)
       /\ \A i \in 1..Len(history) : history[i].gate = "accepted" => history[i].verified
       /\ LastEvent.msg # Unexpected

\* C18: when the source raises after having yielded candidates, the run
\* goes on with them: each is validated and, if accepted, verified, and the
\* run does not end with the error of the source.
C18_SourceFailureKeepsReceived ==
    (pc = "done" /\ source = "raised" /\ candidates # <<>>)
    => /\ Len(history) = Len(candidates)
       /\ \A i \in 1..Len(history) : history[i].gate = "accepted" => history[i].verified
       /\ LastEvent.msg # Unexpected

\* C19: solve_issue never raises to its consumer; an exception that was not
\* handled at the candidate boundary ends the run with exactly one
\* run-level error event, the last event of the run.
C19_NeverRaisesToConsumer ==
    /\ pc # "raised"
    /\ source \in {"raised", "abandoned"}
       => /\ pc = "done"
          /\ LastEvent.type = "error" /\ LastEvent.msg = Unexpected
          /\ Cardinality({k \in 1..Len(events) : events[k].msg = Unexpected}) = 1

C19_SourceRaisedInMidStream ==
    /\ source = "raised" /\ candidates # <<>>
    /\ LastEvent.msg = Unexpected

\* C20: the events of a run hold exactly one terminal event (complete or a
\* run-level error) once the run has ended, none before, and the terminal
\* event is the last event.
C20_OneTerminalEventAtTheEnd ==
    /\ pc = "done" => Terminals = {Len(events)}
    /\ pc # "done" => Terminals = {}

C20_EndedAfterCandidateError ==
    /\ pc = "done"
    /\ LastEvent.type = "complete"
    /\ \E k \in 1..Len(events) : events[k].type = "error" /\ events[k].msg = "Error testing"

\* the text of an engine-level error, as str(e) gives it
EngineErrorTexts == {"str(e): containers.run", "str(e): put_archive", "str(e): logs",
                     "str(e): wait"}

\* C22: an engine-level error in run_verification is returned, never
\* raised, as a failed outcome carrying the error text; the orchestrator
\* logs it as a FAIL like a failing test run and goes on with the next
\* candidate.
C22_EngineErrorIsAFailedOutcome ==
    \A i \in 1..Len(history) :
       history[i].engine_error
       => /\ history[i].raised = "none"
          /\ history[i].verified /\ ~history[i].success
          /\ history[i].sandbox_logs.text \in EngineErrorTexts
          /\ \E k \in 1..Len(logs) :
                /\ logs[k].kind = "candidate"
                /\ logs[k].miner = GetMinerId(candidates[i])
                /\ logs[k].result = "FAIL"
                /\ logs[k].sandbox_logs = history[i].sandbox_logs
          /\ \A k \in 1..Len(passing) : passing[k] # i
          /\ pc = "done" => Len(history) = Len(candidates)

\* C28: the command the instance executes is the test procedure handed to
\* run_verification, the one solve_issue built for the run.
C28_EntryCommandIsTheTestProcedure ==
    sb_last.n > 0
    => /\ sb_last.calls[1].call = "containers.run"
       /\ sb_last.calls[1].payload = run_tests_sh(issue_url).script

\* candidate i is named, with the given result, in an event of the run or in
\* the verification_logs of its complete bundle
ReportedAs(i, result) ==
    \/ /\ result = "BLOCKED"
       /\ \E k \in 1..Len(events) :
             /\ events[k].msg = "Patch blocked"
             /\ events[k].miner = GetMinerId(candidates[i])
             /\ events[k].reason.rule # ""
    \/ \E k \in Completes :
          \E j \in 1..Len(events[k].bundle.verification_logs) :
             LET entry == events[k].bundle.verification_logs[j]
             IN  /\ entry.kind = "candidate"
                 /\ entry.miner = GetMinerId(candidates[i])
                 /\ entry.result = result

\* C30: in every terminal outcome, each candidate the gate rejected and
\* each candidate that failed verification is reported in the output of the
\* run (an event, or the logs of the complete bundle) with its miner id and
\* the reason or result.
C30_EveryRejectionAndFailureIsReported ==
    pc = "done"
    => \A i \in 1..Len(history) :
          /\ history[i].gate = "blocked" => ReportedAs(i, "BLOCKED")
          /\ (history[i].verified /\ history[i].raised = "none" /\ ~history[i].success)
             => ReportedAs(i, "FAIL")

\* C21: a run emits complete at most once and calls create_locked_content
\* at most once: one invoice exists in a run that emitted complete, none in
\* a run that has not (a run that ended in a failure outcome included).
C21_OneCompleteOneInvoice ==
    /\ Cardinality(Completes) <= 1
    /\ Cardinality(issued) = Cardinality(Completes)
    /\ Cardinality(DOMAIN active_invoices) = Cardinality(Completes)
    /\ (pc = "done" /\ LastEvent.type = "error") => active_invoices = <<>>

C21_CompletedWithOneInvoice ==
    /\ pc = "done"
    /\ LastEvent.type = "complete"
    /\ DOMAIN active_invoices = {LastEvent.bundle.invoice_id}

\* candidate j needs no further step: the gate rejected it or failed on it,
\* or its verification has returned
Finished(j) == history[j].gate \in {"blocked", "raised"} \/ history[j].verified

\* the events of candidate i, from the candidate and its outcomes alone
CandidateEvents(i) ==
    LET m == GetMinerId(candidates[i])
        h == history[i]
    IN  IF h.gate = "raised" THEN <<Yield("error", "Error testing", m, NoReason)>>
        ELSE IF h.gate = "blocked"
        THEN <<Yield("event", "Patch blocked", m,
                     validate_patch_code(GetCode(candidates[i]), RequireFunction,
                                         DefaultMaxChars).reason)>>
        ELSE <<Yield("event", "Testing Patch in Sandbox", m, NoReason)>>
             \o (IF h.verified /\ h.raised # "none"
                 THEN <<Yield("error", "Error testing", m, NoReason)>> ELSE <<>>)

\* the events of candidates 1..n, candidate by candidate
RECURSIVE LoopEvents(_)
LoopEvents(n) == IF n = 0 THEN <<>> ELSE LoopEvents(n - 1) \o CandidateEvents(n)

\* the events emitted before the loop: the two opening ones, the notes of
\* the source and one per candidate received
BeforeLoop ==
    2 + Cardinality({k \in 1..Len(events) : events[k].msg = "source note"}) + Len(candidates)

\* C31: candidates are processed one after another in arrival order: when
\* the validation of a candidate begins, every earlier candidate is finished
\* (rejected, or verified), at most the current candidate is unfinished, and
\* the events of the loop are the events of candidate 1, then those of
\* candidate 2, and so on, each determined by the candidate and its outcomes.
C31_OneCandidateAtATime ==
    /\ \A j \in 1..(Len(history) - 1) : Finished(j)
    /\ pc = "loop" => Len(history) = idx - 1 /\ \A j \in 1..Len(history) : Finished(j)
    /\ pc = "verify" => Len(history) = idx /\ ~Finished(idx)
    /\ pc \in {"after", "lock"} => Len(history) = Len(candidates) /\ \A j \in 1..Len(history) : Finished(j)
    /\ \A j \in 1..Len(history) : history[j].verified => history[j].gate = "accepted"
    /\ source = "exhausted" /\ candidates # <<>>
       => LET L == LoopEvents(Len(history))
          IN  /\ Len(events) >= BeforeLoop + Len(L)
              /\ SubSeq(events, BeforeLoop + 1, BeforeLoop + Len(L)) = L
              /\ pc \in {"loop", "verify", "after"} => Len(events) = BeforeLoop + Len(L)
              /\ \A k \in (BeforeLoop + Len(L) + 1)..Len(events) :
                    events[k].msg \notin {"Error testing", "Patch blocked",
                                          "Testing Patch in Sandbox"}

\* both candidates of a run were accepted and verified, the first failing
\* and the second passing
C31_TwoVerifiedInTurn ==
    /\ pc = "after"
    /\ Len(history) = 2
    /\ history[1].verified /\ ~history[1].success
    /\ history[2].verified /\ history[2].success

\* C33: no isolated instance exists at any point where solve_issue is
\* suspended waiting for its consumer, so that a run abandoned, cancelled or
\* aborted there leaves no instance behind: every instance the run created
\* has been removed.
C33_NoInstanceOutlivesTheRun ==
    /\ instances = {}
    /\ created = removed

\* C39: a run consumed to its end, of a source that yields finitely many
\* candidates and with collaborators that return or raise, eventually emits
\* a terminal event (complete, or a run-level error) and stops there; the
\* loop takes up each candidate once, in order, and verifies it at most once.
C39_RunEndsAndVisitsEachOnce ==
    /\ <>[](pc = "done" /\ Terminal(LastEvent))
    /\ [](Len(history) <= Len(candidates))
    /\ [](sb_last.n = Cardinality({i \in 1..Len(history) : history[i].verified}))
    /\ [][/\ idx' >= idx
          /\ Len(history') # Len(history)
             => Len(history') = Len(history) + 1 /\ idx = Len(history')
          /\ sb_last'.n # sb_last.n
             => /\ sb_last'.n = sb_last.n + 1
                /\ ~history[idx].verified /\ history'[idx].verified]_vars

\* a run that ended after taking up two candidates, verifying both
C39_EndedAfterTwoVerifications ==
    /\ pc = "done"
    /\ Len(history) = 2
    /\ sb_last.n = 2
    /\ Terminal(LastEvent)

(***************************************************************************)
(* SpecSelect: _select_consensus_winner called repeatedly on one passing   *)
(* list.  The list is never empty: solve_issue returns before the call     *)
(* when nothing passed (coordinator.py line 109).                          *)
(***************************************************************************)
SelectMiners == {"miner-a", "miner-b", "miner-c"}
SelectPool   == {Candidate(m, c) : m \in SelectMiners, c \in {C_fix, C_fix_ws, C_alt}}
PassingLists == UNION {[1..n -> SelectPool] : n \in 1..MaxPassing}

InitSelect ==
    /\ sel_in \in PassingLists
    /\ sel_out = <<>>
    /\ sel_report = <<>>
    /\ norm_in = [none |-> TRUE, text |-> <<>>]
    /\ norm_out = NormNotCalled
    /\ mode = "demo" /\ MerchantInit /\ GateIdle /\ SandboxIdle /\ RunIdle

Select ==
    /\ Len(sel_out) < MaxSelects
    /\ sel_out' = Append(sel_out, GetMinerId(sel_in[_select_consensus_winner(sel_in)]))
    /\ UNCHANGED <<sel_in, sel_report, norm_in, norm_out>>

\* lines 114-115: the report of the list and of the winner selected from it
Report ==
    /\ sel_report = <<>>
    /\ LET w == sel_in[_select_consensus_winner(sel_in)]
       IN  sel_report' = <<_consensus_report(sel_in, w)>>
    /\ UNCHANGED <<sel_in, sel_out, norm_in, norm_out>>

NextSelect ==
    \/ Select /\ UNCHANGED <<merchantVars, gateVars, sandboxVars, runVars>>
    \/ Report /\ UNCHANGED <<merchantVars, gateVars, sandboxVars, runVars>>

SpecSelect == InitSelect /\ [][NextSelect]_vars

NormChars  == {"a", " ", "\t", "\n", "\r"}
NormTexts  == UNION {[1..n -> NormChars] : n \in 0..MaxLen}
NormInputs == {[none |-> FALSE, text |-> t] : t \in NormTexts}
              \cup {[none |-> TRUE, text |-> <<>>]}

InitNormalize ==
    /\ norm_in \in NormInputs
    /\ norm_out = NormNotCalled
    /\ sel_in = <<>> /\ sel_out = <<>> /\ sel_report = <<>>
    /\ mode = "demo" /\ MerchantInit /\ GateIdle /\ SandboxIdle /\ RunIdle

Normalize ==
    /\ ~norm_out.called
    /\ LET once == _normalize_code(OrEmpty(norm_in))
       IN  norm_out' = [called |-> TRUE, once |-> once,
                        twice |-> _normalize_code(OrEmpty([none |-> FALSE, text |-> once]))]
    /\ UNCHANGED <<sel_in, sel_out, sel_report, norm_in>>

NextNormalize == Normalize /\ UNCHANGED <<merchantVars, gateVars, sandboxVars, runVars>>

SpecNormalize == InitNormalize /\ [][NextNormalize]_vars

\* number of candidates of ps with the normalized code of ps[i]
VotesOf(ps, i) == Cardinality({j \in 1..Len(ps) : NormOf(ps[j]) = NormOf(ps[i])})
\* ps[i] is the first candidate of ps with its normalized code
FirstOfItsCode(ps, i) == \A j \in 1..(i - 1) : NormOf(ps[j]) # NormOf(ps[i])
\* w opens a bucket, no bucket has more votes, and no bucket with as many
\* votes was opened before it
IsFirstSeenPlurality(ps, w) ==
    /\ w \in 1..Len(ps)
    /\ FirstOfItsCode(ps, w)
    /\ \A j \in 1..Len(ps) : VotesOf(ps, j) <= VotesOf(ps, w)
    /\ \A j \in 1..(w - 1) : VotesOf(ps, j) < VotesOf(ps, w)

\* C24: for a non-empty passing list _select_consensus_winner returns the
\* first candidate of the earliest-created bucket among those with the most
\* members; among buckets with equally many members the first seen wins.
C24_FirstSeenPluralityWins ==
    sel_out # <<>>
    => /\ IsFirstSeenPlurality(sel_in, _select_consensus_winner(sel_in))
       /\ \A k \in 1..Len(sel_out) :
             sel_out[k] = GetMinerId(sel_in[_select_consensus_winner(sel_in)])

\* selected on a list whose first two candidates open two buckets of equal
\* size, sent by different miners
C24_SelectedOnATie ==
    /\ sel_out # <<>>
    /\ Len(sel_in) >= 2
    /\ NormOf(sel_in[1]) # NormOf(sel_in[2])
    /\ VotesOf(sel_in, 1) = VotesOf(sel_in, 2)
    /\ GetMinerId(sel_in[1]) # GetMinerId(sel_in[2])
    /\ sel_out[1] = GetMinerId(sel_in[1])

\* position i of text x is the first character of a line that is not blank
StartsALine(x, i) ==
    /\ i \in 1..Len(x)
    /\ ~IsSpace(x[i])
    /\ i = 1 \/ IsLineBreak(x[i - 1])
\* x with one more space of indentation in front of the line starting at i
IndentAt(x, i) == SubSeq(x, 1, i - 1) \o <<" ">> \o SubSeq(x, i, Len(x))

\* C25: normalization keeps the leading whitespace of every line: a text
\* and the same text with one line indented further (the first non-blank
\* line included) normalize to different strings, and so fall into
\* different buckets.
C25_IndentationIsKept ==
    (norm_out.called /\ ~norm_in.none)
    => \A i \in 1..Len(norm_in.text) :
          StartsALine(norm_in.text, i)
          => _normalize_code(IndentAt(norm_in.text, i)) # norm_out.once

RECURSIVE SumOfLens(_)
SumOfLens(seqs) == IF seqs = <<>> THEN 0 ELSE Len(Head(seqs)) + SumOfLens(Tail(seqs))

\* C26: the buckets partition the passing list: every candidate is in
\* exactly one bucket, every member of a bucket normalizes to the bucket's
\* key, the sizes sum to the length of the list; the selector and the
\* report (its vote counts) work on these buckets.
C26_BucketsPartitionPassing ==
    sel_out # <<>>
    => LET b == BuildBuckets(sel_in, 1, NoBuckets)
       IN  /\ Len(b.buckets) = Len(b.order)
           /\ \A i \in 1..Len(sel_in) :
                 Cardinality({km \in (1..Len(b.buckets)) \X (1..Len(sel_in)) :
                                 /\ km[2] <= Len(b.buckets[km[1]])
                                 /\ b.buckets[km[1]][km[2]] = i}) = 1
           /\ \A k \in 1..Len(b.buckets) : \A m \in 1..Len(b.buckets[k]) :
                 NormOf(sel_in[b.buckets[k][m]]) = b.order[k]
           /\ \A k \in 1..Len(b.order) : \A j \in 1..Len(b.order) :
                 b.order[k] = b.order[j] => k = j
           /\ SumOfLens(b.buckets) = Len(sel_in)
           /\ b.order = BucketOrder(sel_in, <<>>)
           /\ \A k \in 1..Len(b.order) : b.buckets[k] = Bucket(sel_in, b.order[k])
           /\ LET rows == _consensus_report(sel_in, sel_in[1]).rows
              IN  SumOfLens([k \in 1..Len(rows) |-> rows[k].miners]) = Len(sel_in)

\* selected on a list of three candidates in two buckets
C26_TwoBucketsOfThree ==
    /\ sel_out # <<>>
    /\ Len(sel_in) = 3
    /\ Len(BuildBuckets(sel_in, 1, NoBuckets).order) = 2

\* C13: normalization is idempotent: _normalize_code(_normalize_code(x)) is
\* _normalize_code(x) for every text x (blank lines, trailing whitespace and
\* mixed line terminators included) and for None.
C13_NormalizeIdempotent == norm_out.called => norm_out.twice = norm_out.once

\* normalized: a text with a blank line, trailing whitespace and a "\r" terminator
C13_NormalizedMixedText ==
    /\ norm_out.called
    /\ ~norm_in.none
    /\ norm_in.text # norm_out.once
    /\ \E i \in 1..Len(norm_in.text) : norm_in.text[i] = "\r"
    /\ \E i \in 1..Len(norm_in.text) : norm_in.text[i] \in {" ", "\t"}
    /\ norm_out.once # <<>>
\* the distinct normalized codes of a passing list
CodesOf(ps) == {NormOf(ps[i]) : i \in 1..Len(ps)}

\* the miner ids of the candidates of ps whose normalized code is c, in order
MinersOf(ps, c) ==
    LET those == SelectSeq(ps, LAMBDA cand : NormOf(cand) = c)
    IN  [k \in 1..Len(those) |-> GetMinerId(those[k])]

\* what the report says of the bucket of code c
RowOf(ps, c) ==
    [votes |-> Len(MinersOf(ps, c)), miners |-> MinersOf(ps, c), preview |-> Preview(c)]

\* C35: the consensus report states the number of passing candidates, the
\* number of distinct normalized solutions, one row per bucket with its vote
\* count and the miner ids of its candidates, the rows in descending order
\* of vote count, and the miner id of the selected winner; making the
\* report leaves the passing list and the selection as they were.
C35_ReportStatesTheVote ==
    sel_report # <<>>
    => LET R == sel_report[1]
       IN  /\ R.passing = Len(sel_in)
           /\ R.unique = Cardinality(CodesOf(sel_in))
           /\ Len(R.rows) = R.unique
           /\ \A c \in CodesOf(sel_in) : \E k \in 1..Len(R.rows) : R.rows[k] = RowOf(sel_in, c)
           /\ \A k \in 1..Len(R.rows) : \E c \in CodesOf(sel_in) : R.rows[k] = RowOf(sel_in, c)
           /\ SumOfLens([k \in 1..Len(R.rows) |-> R.rows[k].miners]) = Len(sel_in)
           /\ \A k \in 1..(Len(R.rows) - 1) : R.rows[k].votes >= R.rows[k + 1].votes
           /\ R.winner = GetMinerId(sel_in[_select_consensus_winner(sel_in)])
           /\ \A k \in 1..Len(sel_out) : sel_out[k] = R.winner

\* a report of three candidates in which the bucket seen second has two
\* votes and is listed first, the selector having been called twice
C35_ReportedSecondSeenFirst ==
    /\ sel_report # <<>>
    /\ Len(sel_out) = 2
    /\ Len(sel_in) = 3
    /\ Len(sel_report[1].rows) = 2
    /\ sel_report[1].rows[1].votes = 2
    /\ sel_report[1].rows[1] # RowOf(sel_in, NormOf(sel_in[1]))

\* C36: the bucket the report lists first is the bucket of the selected
\* winner, also when several buckets have the greatest vote count.
C36_FirstRowIsTheWinnersBucket ==
    sel_report # <<>>
    => LET w == sel_in[_select_consensus_winner(sel_in)]
       IN  /\ sel_report[1].rows[1] = RowOf(sel_in, NormOf(w))
           /\ sel_report[1].winner \in
                 {sel_report[1].rows[1].miners[k] : k \in 1..Len(sel_report[1].rows[1].miners)}

\* a report of two buckets with one vote each from different miners
C36_ReportedATie ==
    /\ sel_report # <<>>
    /\ Len(sel_in) = 2
    /\ Len(sel_report[1].rows) = 2
    /\ sel_report[1].rows[1].votes = sel_report[1].rows[2].votes
    /\ sel_report[1].rows[1].miners # sel_report[1].rows[2].miners

====
